---- MODULE Spec2Model ----
(***************************************************************************)
(* Model of statsmodels/stats/rates.py: tests for the ratio of two Poisson *)
(* intensities (test_poisson_2indep, etest_poisson_2indep,                 *)
(* tost_poisson_2indep).                                                   *)
(*                                                                         *)
(* Numbers.  Arguments are Python numbers: counts are ints, exposures are  *)
(* ints, ratio_null / low / upp are fractions.  Quantities the code gets   *)
(* by +, -, *, / alone are kept as exact rationals <<n, d>> (d > 0, lowest *)
(* terms).  Quantities that go through np.sqrt are fixed-point integers in *)
(* units of 1/SCALE, and probabilities of the normal and Poisson           *)
(* distributions are fixed-point integers in units of 1/PSCALE.            *)
(* A Python "/" with a zero right operand raises ZeroDivisionError; a      *)
(* division by a numpy float (the value of np.sqrt) never raises and gives *)
(* nan for 0/0.                                                            *)
(***************************************************************************)
EXTENDS Integers, Sequences, FiniteSets, TLC

VARIABLES call, pc, outcome, ret, loc, trace, statEps, cmpEps

vars == <<call, pc, outcome, ret, loc, trace, statEps, cmpEps>>

(* ------------------------------ bounds -------------------------------- *)
MaxCount == 2
MaxExposure == 2

(* ---------------------------- arithmetic ------------------------------ *)
SCALE == 10 * 100
PSCALE == 100 * 100

Abs(x) == IF x < 0 THEN -x ELSE x
Sign(x) == IF x < 0 THEN -1 ELSE IF x = 0 THEN 0 ELSE 1
Max(x, y) == IF x >= y THEN x ELSE y

RECURSIVE GCD(_, _)
GCD(a, b) == IF b = 0 THEN a ELSE GCD(b, a % b)

\* a rational in lowest terms with a positive denominator (den # 0)
Rat(num, den) ==
    LET g == GCD(Abs(num), Abs(den))
        s == IF den < 0 THEN -1 ELSE 1
    IN  <<s * (num \div g), s * (den \div g)>>

RInt(k) == <<k, 1>>
\* sums over the least common denominator, products reduced crosswise
RAdd(p, q) ==
    LET g == GCD(p[2], q[2])
    IN  Rat(p[1] * (q[2] \div g) + q[1] * (p[2] \div g), p[2] * (q[2] \div g))
RNeg(p) == <<-p[1], p[2]>>
RSub(p, q) == RAdd(p, RNeg(q))
RMul(p, q) ==
    LET g1 == GCD(Abs(p[1]), q[2])
        g2 == GCD(Abs(q[1]), p[2])
    IN  Rat((p[1] \div g1) * (q[1] \div g2), (p[2] \div g2) * (q[2] \div g1))
\* q # 0 is the caller's obligation: Python raises before dividing
RDiv(p, q) == Rat(p[1] * q[2], p[2] * q[1])
RIsZero(p) == p[1] = 0

\* p <= q without forming cross products (continued-fraction comparison)
RECURSIVE RLeq(_, _)
RLeq(p, q) ==
    LET ip == p[1] \div p[2]
        iq == q[1] \div q[2]
        fp == p[1] % p[2]
        fq == q[1] % q[2]
    IN  IF ip # iq THEN ip < iq
        ELSE IF fp = 0 THEN TRUE
        ELSE IF fq = 0 THEN FALSE
        ELSE RLeq(<<q[2], fq>>, <<p[2], fp>>)

RECURSIVE Pow(_, _)
Pow(b, e) == IF e = 0 THEN 1 ELSE b * Pow(b, e - 1)

RECURSIVE ISqrtIn(_, _, _)
ISqrtIn(n, lo, hi) ==
    IF lo >= hi THEN lo
    ELSE LET mid == (lo + hi + 1) \div 2
         IN  IF mid * mid <= n THEN ISqrtIn(n, mid, hi)
             ELSE ISqrtIn(n, lo, mid - 1)

\* floor of the square root of n >= 0
ISqrt(n) == ISqrtIn(n, 0, 46340)

\* division of integers truncating toward zero, den # 0
TDiv(num, den) == Sign(num) * Sign(den) * (Abs(num) \div Abs(den))

(* --------------------------- float values ----------------------------- *)
\* A float: kind "num" with the fixed-point value fx, "nan", or Python None
Num(fx) == [kind |-> "num", fx |-> fx]
NaN == [kind |-> "nan", fx |-> 0]
None == [kind |-> "None", fx |-> 0]

\* np.sqrt of a rational: nan (with a warning) below zero
NpSqrt(q) ==
    IF q[1] < 0 THEN NaN
    ELSE Num(ISqrt((q[1] * SCALE * SCALE) \div q[2]))

\* a rational divided by a numpy float: 0/0 and nan give nan, never raise
NpDivRat(q, f) ==
    IF f.kind # "num" THEN NaN
    ELSE IF f.fx = 0 THEN NaN
    ELSE Num(TDiv(q[1] * SCALE * SCALE, q[2] * f.fx))

\* float * 2, float - float, float / float on numpy floats
NpTwice(f) == IF f.kind # "num" THEN NaN ELSE Num(2 * f.fx)
NpSub(f, g) ==
    IF f.kind # "num" \/ g.kind # "num" THEN NaN ELSE Num(f.fx - g.fx)
NpDiv(f, g) ==
    IF f.kind # "num" \/ g.kind # "num" THEN NaN
    ELSE IF g.fx = 0 THEN NaN
    ELSE Num(TDiv(f.fx * SCALE, g.fx))

\* a probability: exact rational p, or nan
Prob(p) == [kind |-> "num", p |-> p]
ProbNaN == [kind |-> "nan", p |-> <<0, 1>>]

(* ---------------- collaborators outside rates.py --------------------- *)
\* standard normal CDF at 0, 0.25, ..., 4.0 in units of 1/PSCALE
PhiTable ==
    <<5000, 5987, 6915, 7734, 8413, 8944, 9332, 9599, 9772,
      9878, 9938, 9970, 9987, 9994, 9998, 9999, 10000>>
PhiStep == SCALE \div 4

\* Phi(z) for a fixed-point z >= 0, by linear interpolation in PhiTable
PhiPos(z) ==
    LET i == z \div PhiStep
        f == z % PhiStep
    IN  IF i + 1 >= Len(PhiTable) THEN PhiTable[Len(PhiTable)]
        ELSE PhiTable[i + 1]
             + ((PhiTable[i + 2] - PhiTable[i + 1]) * f) \div PhiStep

NormCdf(z) == IF z >= 0 THEN PhiPos(z) ELSE PSCALE - PhiPos(-z)
NormSf(z) == NormCdf(-z)

\* the alternatives the normal and binomial p-value routines accept
TestAlternatives == {"two-sided", "larger", "smaller"}

\* _zstat_generic2(value, 1, alternative), alternative supported:
\* two-sided 2*(1 - Phi(|z|)), larger 1 - Phi(z), smaller Phi(z)
ZstatPvalue(stat, alternative) ==
    IF stat.kind # "num" THEN ProbNaN
    ELSE CASE alternative = "two-sided" ->
                Prob(Rat(2 * NormSf(Abs(stat.fx)), PSCALE))
           [] alternative = "larger"  -> Prob(Rat(NormSf(stat.fx), PSCALE))
           [] alternative = "smaller" -> Prob(Rat(NormCdf(stat.fx), PSCALE))

RECURSIVE Choose(_, _)
Choose(n, k) ==
    IF k = 0 \/ k = n THEN 1 ELSE Choose(n - 1, k - 1) + Choose(n - 1, k)

RECURSIVE SumOver(_, _)
\* sum of f[k] for k in the finite set S of ints
SumOver(f, S) ==
    IF S = {} THEN 0
    ELSE LET k == CHOOSE x \in S : TRUE IN f[k] + SumOver(f, S \ {k})

\* numerators of the Binomial(n, bp) point masses over the denominator
\* bp[2]^n, for 0 <= bp <= 1
BinomNum(n, bp) ==
    [k \in 0..n |-> Choose(n, k) * Pow(bp[1], k) * Pow(bp[2] - bp[1], n - k)]

\* stats.binom.pmf(k, n, bp)
BinomPmf(k, n, bp) == Rat(BinomNum(n, bp)[k], Pow(bp[2], n))

\* proportion.binom_test(count, nobs, prop, alternative), alternative
\* supported: exact tail sums; two-sided sums the outcomes no more likely
\* than the observed one
BinomTest(count, nobs, prop, alternative) ==
    LET w == BinomNum(nobs, prop)
        S == CASE alternative = "larger"  -> {k \in 0..nobs : k >= count}
               [] alternative = "smaller" -> {k \in 0..nobs : k <= count}
               [] alternative = "two-sided" ->
                    {k \in 0..nobs : w[k] <= w[count]}
    IN  Rat(SumOver(w, S), Pow(prop[2], nobs))

(* ----------------------- test_poisson_2indep -------------------------- *)
TestMethods == {"score", "wald", "sqrt", "exact-cond", "cond-midp"}
NormalMethods == {"score", "wald", "sqrt"}

\* d = n2 / n1 (line 81)
RatioD(a) == Rat(a.exposure2, a.exposure1)
\* r_d = r / d (line 83)
RatioRD(a) == RDiv(a.ratio_null, RatioD(a))

\* lines 81 and 83: a Python division whose right operand is zero
ShortcutRaises(a) == a.exposure1 = 0 \/ a.exposure2 = 0

\* lines 86, 89, 92-93: the raw statistic of a normal method
RawStat(method, y1, y2, r_d) ==
    CASE method = "score" ->
           NpDivRat(RSub(RInt(y1), RMul(RInt(y2), r_d)),
                    NpSqrt(RMul(RInt(y1 + y2), r_d)))
      [] method = "wald" ->
           NpDivRat(RSub(RInt(y1), RMul(RInt(y2), r_d)),
                    NpSqrt(RAdd(RInt(y1), RMul(RInt(y2), RMul(r_d, r_d)))))
      [] method = "sqrt" ->
           NpDiv(NpTwice(NpSub(NpSqrt(RAdd(RInt(y1), <<3, 8>>)),
                               NpSqrt(RMul(RAdd(RInt(y2), <<3, 8>>), r_d)))),
                 NpSqrt(RAdd(RInt(1), r_d)))

\* line 97: bp = r_d / (1 + r_d)
BinomProp(r_d) == RDiv(r_d, RAdd(RInt(1), r_d))

\* a variant that takes off the whole point mass
MidPFull(pvalue, pmf) == RSub(pvalue, pmf)
\* line 105: pvalue - 0.5 * stats.binom.pmf(y1, y_total, bp)
MidP(pvalue, pmf) == RSub(pvalue, RMul(<<1, 2>>, pmf))

\* lines 101-105: the p-value of the two conditional methods
CondPvalue(method, y1, y2, bp, alternative) ==
    LET binom == BinomTest(y1, y1 + y2, bp, alternative)
    IN  IF method = "cond-midp"
        THEN MidP(binom, BinomPmf(y1, y1 + y2, bp))
        ELSE binom

\* a variant with the exposures crossed
RatesCrossed(a) == <<Rat(a.count1, a.exposure2), Rat(a.count2, a.exposure1)>>
\* line 114: rates = (y1 / n1, y2 / n2)
Rates(a) == <<Rat(a.count1, a.exposure1), Rat(a.count2, a.exposure2)>>
\* line 115: ratio = rates[0] / rates[1]
RateRatio(rates) == RDiv(rates[1], rates[2])

NoRes ==
    [statistic |-> None, pvalue |-> ProbNaN, distribution |-> "",
     method |-> "", alternative |-> "", rates |-> <<RInt(0), RInt(0)>>,
     ratio |-> RInt(0), ratio_null |-> RInt(0)]

Raise(e) == [exc |-> e, res |-> NoRes]

\* lines 85-124: the body after the shortcut names, for n1 # 0, n2 # 0
TestBody(a) ==
    IF a.method \notin TestMethods THEN Raise("ValueError:method")
    ELSE LET r_d == RatioRD(a)
             normal == a.method \in NormalMethods
         IN
         \* line 97, then binom_test / _zstat_generic2, then line 115
         IF ~normal /\ RIsZero(RAdd(RInt(1), r_d))
         THEN Raise("ZeroDivisionError")
         ELSE IF a.alternative \notin TestAlternatives
         THEN Raise("ValueError:alternative")
         ELSE IF a.count2 = 0 THEN Raise("ZeroDivisionError")
         ELSE LET stat == IF normal
                          THEN RawStat(a.method, a.count1, a.count2, r_d)
                          ELSE None
                  pvalue == IF normal THEN ZstatPvalue(stat, a.alternative)
                            ELSE Prob(CondPvalue(a.method, a.count1,
                                     a.count2, BinomProp(r_d), a.alternative))
                  rates == Rates(a)
              IN [exc |-> "none",
                  res |-> [statistic |-> stat,
                           pvalue |-> pvalue,
                           distribution |->
                               IF normal THEN "normal" ELSE "binomial",
                           method |-> a.method,
                           alternative |-> a.alternative,
                           rates |-> rates,
                           ratio |-> RateRatio(rates),
                           ratio_null |-> a.ratio_null]]

\* a variant that rejects a non-positive exposure up front
TestPoisson2indepChecked(a) ==
    IF a.exposure1 <= 0 \/ a.exposure2 <= 0 THEN Raise("ValueError:exposure")
    ELSE TestBody(a)

\* test_poisson_2indep(count1, exposure1, count2, exposure2, ratio_null,
\* method, alternative): the exception raised ("none" on return) and the
\* HolderTuple returned
TestPoisson2indep(a) ==
    IF ShortcutRaises(a) THEN Raise("ZeroDivisionError") ELSE TestBody(a)

(* ----------------------- tost_poisson_2indep -------------------------- *)
\* np.maximum of two p-values: nan if either is nan
NpMaximum(p, q) ==
    IF p.kind # "num" \/ q.kind # "num" THEN ProbNaN
    ELSE IF RLeq(p.p, q.p) THEN q ELSE p

\* lines 256-258 and 259-261: the arguments of the two one-sided tests
LowerArgs(a) == [a EXCEPT !.ratio_null = a.low, !.alternative = "larger"]
UpperArgs(a) == [a EXCEPT !.ratio_null = a.upp, !.alternative = "smaller"]

NpMinimum(p, q) ==
    IF p.kind # "num" \/ q.kind # "num" THEN ProbNaN
    ELSE IF RLeq(p.p, q.p) THEN p ELSE q

\* a variant that reports the smaller p-value
TostPvalueMin(tt1, tt2) == NpMinimum(tt1.pvalue, tt2.pvalue)
\* line 263: the first component of the returned triple
TostPvalue(tt1, tt2) == NpMaximum(tt1.pvalue, tt2.pvalue)

\* a variant that rejects low >= upp before testing
TostPoisson2indepChecked(a) ==
    LET tt1 == TestPoisson2indep(LowerArgs(a))
        tt2 == TestPoisson2indep(UpperArgs(a))
        fail(e) == [exc |-> e, pvalue |-> ProbNaN, t1 |-> NoRes, t2 |-> NoRes]
    IN  IF RLeq(a.upp, a.low) THEN fail("ValueError:bounds")
        ELSE IF tt1.exc # "none" THEN fail(tt1.exc)
        ELSE IF tt2.exc # "none" THEN fail(tt2.exc)
        ELSE [exc |-> "none", pvalue |-> TostPvalue(tt1.res, tt2.res),
              t1 |-> tt1.res, t2 |-> tt2.res]

\* tost_poisson_2indep(count1, exposure1, count2, exposure2, low, upp,
\* method)
TostPoisson2indep(a) ==
    LET tt1 == TestPoisson2indep(LowerArgs(a))
        tt2 == TestPoisson2indep(UpperArgs(a))
    IN  IF tt1.exc # "none"
        THEN [exc |-> tt1.exc, pvalue |-> ProbNaN, t1 |-> NoRes, t2 |-> NoRes]
        ELSE IF tt2.exc # "none"
        THEN [exc |-> tt2.exc, pvalue |-> ProbNaN, t1 |-> NoRes, t2 |-> NoRes]
        ELSE [exc |-> "none", pvalue |-> TostPvalue(tt1.res, tt2.res),
              t1 |-> tt1.res, t2 |-> tt2.res]

(* ----------------------- etest_poisson_2indep ------------------------- *)
\* eps as the exponent e of 10^-e: line 137 (1e-20) and line 181 (1e-15)
EpsStatFunc == 20
EpsCompare == 15
\* line 175: keep at least 100
MinThreshold == 100
\* Poisson weights m^k / k! are kept in units of 1/WSCALE
WSCALE == 10 * 100

EtestMethods == {"score", "wald"}
TwoSidedAlts == {"two-sided", "2-sided", "2s"}
LargerAlts == {"larger", "l"}
SmallerAlts == {"smaller", "s"}
EtestAlternatives == TwoSidedAlts \cup LargerAlts \cup SmallerAlts

\* a variant order with eps reassigned before the surface is computed
EtestOrderEpsEarly ==
    <<"dispatch", "cmle", "stat_sample", "grid", "pdf", "eps", "stat_space",
      "mask", "pvalue", "done">>
\* the statements of the body in program order (lines 139-193)
EtestOrder ==
    <<"dispatch", "cmle", "stat_sample", "grid", "pdf", "stat_space", "eps",
      "mask", "pvalue", "done">>

After(step) ==
    EtestOrder[1 + CHOOSE i \in 1..Len(EtestOrder) : EtestOrder[i] = step]

\* 10^-e in fixed point: x / 10^e, truncated
RECURSIVE ShiftDown(_, _)
ShiftDown(x, e) == IF e = 0 \/ x = 0 THEN x ELSE ShiftDown(x \div 10, e - 1)
EpsFx(e) == ShiftDown(SCALE, e)

\* lines 141 and 149: stat_func(x1, x2), reading eps when it is called.
\* eps is below the fixed-point resolution: it decides the value only
\* where the radicand is zero, and there (r_d > 0) the numerator is zero
\* too and the quotient is 0 / sqrt(eps) = 0.
StatFunc(method, x1, x2, r_d, eps) ==
    LET num == RSub(RInt(x1), RMul(RInt(x2), r_d))
        rad == IF method = "score" THEN RMul(RInt(x1 + x2), r_d)
               ELSE RAdd(RInt(x1), RMul(RInt(x2), RMul(r_d, r_d)))
    IN  IF RIsZero(rad) /\ RIsZero(num) /\ eps > 0 THEN Num(0)
        ELSE NpDivRat(num, NpSqrt(rad))

\* lines 159-164: the Poisson means under the null, <<mean1, mean2>>
CmleMeans(a, r_d) ==
    LET rate2 == RDiv(RDiv(RInt(a.count1 + a.count2), RInt(a.exposure2)),
                      RAdd(RInt(1), r_d))
        rate1 == RMul(rate2, a.ratio_null)
    IN  <<RMul(RInt(a.exposure1), rate1), RMul(RInt(a.exposure2), rate2)>>

RMax(p, q) == IF RLeq(p, q) THEN q ELSE p

RECURSIVE PoissonWeights(_, _, _)
\* <<m^0/0!, ..., m^K/K!>> in fixed point, each term from the one before
PoissonWeights(m, K, acc) ==
    IF Len(acc) = K + 1 THEN acc
    ELSE LET j == Len(acc)
         IN  PoissonWeights(m, K,
                 Append(acc, (acc[j] * m[1]) \div (m[2] * j)))

RECURSIVE SeqSum(_)
SeqSum(q) == IF q = <<>> THEN 0 ELSE q[1] + SeqSum(Tail(q))

\* stats.poisson.pmf(arange(K + 1), m) for m >= 0, in units of 1/PSCALE
PoissonPmf(K, m) ==
    LET w == PoissonWeights(m, K, <<WSCALE>>)
        total == SeqSum(w)
    IN  [k \in 0..K |-> (w[k + 1] * PSCALE) \div total]

\* stats.poisson.isf(1e-13, m): for m > 0 the point past which the
\* weights vanish at the model's resolution (the 1e-13 quantile itself lies
\* below MinThreshold for every mean the bounds allow); for m = 0 the
\* library gives 0 or nan, depending on its version
PoissonIsf(m) ==
    IF m[1] = 0 THEN {Num(0), NaN}
    ELSE LET w == PoissonWeights(m, MinThreshold, <<WSCALE>>)
         IN  {Num(CHOOSE k \in 0..MinThreshold :
                    /\ \A j \in (k + 1)..MinThreshold : w[j + 1] = 0
                    /\ (k = 0 \/ w[k + 1] # 0))}

\* the grid cells that carry probability mass
Cells(pdf1, pdf2) ==
    {c \in (DOMAIN pdf1) \X (DOMAIN pdf2) : pdf1[c[1]] # 0 /\ pdf2[c[2]] # 0}

\* lines 183-188: whether a cell's statistic is in the extremal region
InRegion(alternative, s, sample, eps) ==
    IF alternative \in TwoSidedAlts
    THEN Abs(s.fx) >= Abs(sample.fx) - EpsFx(eps)
    ELSE IF alternative \in LargerAlts
    THEN s.fx >= sample.fx - EpsFx(eps)
    ELSE s.fx <= sample.fx + EpsFx(eps)

RECURSIVE MassOver(_, _, _)
\* line 192: the sum of pdf1[i] * pdf2[j] over the cells of S
MassOver(pdf1, pdf2, S) ==
    IF S = {} THEN 0
    ELSE LET c == CHOOSE x \in S : TRUE
         IN  pdf1[c[1]] * pdf2[c[2]] + MassOver(pdf1, pdf2, S \ {c})

\* a variant that lets "sqrt" through, as test_poisson_2indep does
DispatchErrorSqrt(a) ==
    IF a.method \in EtestMethods \cup {"sqrt"} THEN "none"
    ELSE "ValueError:method"

\* a variant that also rejects an unknown alternative here, up front
DispatchErrorAltFirst(a) ==
    IF a.method \notin EtestMethods THEN "ValueError:method"
    ELSE IF a.alternative \notin EtestAlternatives
    THEN "ValueError:alternative"
    ELSE "none"

\* lines 139-155: what the method dispatch raises ("none": nothing)
DispatchError(a) ==
    IF a.method \in EtestMethods THEN "none" ELSE "ValueError:method"

(* ------------------------------ inputs -------------------------------- *)
Counts == 0..MaxCount
Exposures == (0 - 1)..MaxExposure
\* exposure pairs of one sign, or with a zero
ExposurePairs == {e \in Exposures \X Exposures : e[1] * e[2] >= 0}
\* ratio_null, low and upp: below, at and above 1
Ratios == {<<1, 2>>, <<1, 1>>, <<2, 1>>}
MethodInputs == TestMethods \cup {"wald-log", "bogus"}
TestAltInputs == TestAlternatives \cup {"bogus"}

NoArgs ==
    [fn |-> "", count1 |-> 0, exposure1 |-> 1, count2 |-> 0, exposure2 |-> 1,
     ratio_null |-> RInt(1), low |-> RInt(1), upp |-> RInt(1),
     method |-> "", alternative |-> "", ygrid |-> "None"]

NoRet == [res |-> NoRes, t1 |-> NoRes, t2 |-> NoRes, pvalue |-> ProbNaN,
          statistic |-> None]

\* the locals of etest_poisson_2indep before any is bound
NoLoc ==
    [eps |-> 0, r_d |-> RInt(0), stat_func |-> "unbound",
     mean1 |-> RInt(0), mean2 |-> RInt(0), stat_sample |-> None,
     y_grid |-> [bound |-> FALSE, last |-> 0],
     pdf1 |-> <<>>, pdf2 |-> <<>>, stat_space |-> <<>>, mask |-> {}]

EtestMethodInputs == EtestMethods \cup {"sqrt"}
EtestAltInputs == {"2-sided", "larger", "s", "bogus"}
\* ygrid: None, or a grid the caller passes (arange(GridLast + 1))
GridInputs == {"None", "given"}

(* --------------------------- state machine ---------------------------- *)
Init ==
    /\ call = NoArgs
    /\ pc = "idle"
    /\ outcome = "pending"
    /\ ret = NoRet
    /\ loc = NoLoc
    /\ trace = <<>>
    /\ statEps = {}
    /\ cmpEps = {}

Outcome(exc) == IF exc = "none" THEN "returned" ELSE exc

\* a call of test_poisson_2indep, start to end
CallTest ==
    /\ pc = "idle"
    /\ \E y1 \in Counts, y2 \in Counts, e \in ExposurePairs, r \in Ratios,
          m \in MethodInputs, alt \in TestAltInputs :
         LET a == [NoArgs EXCEPT !.fn = "test_poisson_2indep",
                     !.count1 = y1, !.exposure1 = e[1],
                     !.count2 = y2, !.exposure2 = e[2],
                     !.ratio_null = r, !.method = m, !.alternative = alt]
             t == TestPoisson2indep(a)
         IN  /\ call' = a
             /\ outcome' = Outcome(t.exc)
             /\ ret' = [NoRet EXCEPT !.res = t.res]
    /\ pc' = "done"
    /\ UNCHANGED <<loc, trace, statEps, cmpEps>>

\* a call of tost_poisson_2indep, start to end
CallTost ==
    /\ pc = "idle"
    /\ \E y1 \in Counts, y2 \in Counts, e \in ExposurePairs,
          lo \in Ratios, up \in Ratios, m \in MethodInputs :
         LET a == [NoArgs EXCEPT !.fn = "tost_poisson_2indep",
                     !.count1 = y1, !.exposure1 = e[1],
                     !.count2 = y2, !.exposure2 = e[2],
                     !.low = lo, !.upp = up, !.method = m]
             t == TostPoisson2indep(a)
         IN  /\ call' = a
             /\ outcome' = Outcome(t.exc)
             /\ ret' = [NoRet EXCEPT !.pvalue = t.pvalue,
                                     !.t1 = t.t1, !.t2 = t.t2]
    /\ pc' = "done"
    /\ UNCHANGED <<loc, trace, statEps, cmpEps>>

\* an exception leaves the call
RaiseIn(e) ==
    /\ outcome' = e
    /\ pc' = "done"

\* etest_poisson_2indep is called: lines 132-137
CallEtest ==
    /\ pc = "idle"
    /\ \E y1 \in Counts, y2 \in Counts, e \in ExposurePairs, r \in Ratios,
          m \in EtestMethodInputs, alt \in EtestAltInputs, g \in GridInputs :
         LET a == [NoArgs EXCEPT !.fn = "etest_poisson_2indep",
                     !.count1 = y1, !.exposure1 = e[1],
                     !.count2 = y2, !.exposure2 = e[2],
                     !.ratio_null = r, !.method = m, !.alternative = alt,
                     !.ygrid = g]
         IN  /\ call' = a
             /\ IF ShortcutRaises(a)
                THEN /\ RaiseIn("ZeroDivisionError")
                     /\ loc' = loc
                ELSE /\ loc' = [loc EXCEPT !.r_d = RatioRD(a),
                                           !.eps = EpsStatFunc]
                     /\ pc' = EtestOrder[1]
                     /\ outcome' = outcome
    /\ UNCHANGED <<ret, trace, statEps, cmpEps>>

\* lines 139-155: bind stat_func, or raise for an unknown method
EtestDispatch ==
    /\ pc = "dispatch"
    /\ IF DispatchError(call) # "none"
       THEN /\ RaiseIn(DispatchError(call))
            /\ loc' = loc
       ELSE /\ loc' = [loc EXCEPT !.stat_func = call.method]
            /\ pc' = After("dispatch")
            /\ outcome' = outcome
    /\ UNCHANGED <<call, ret, trace, statEps, cmpEps>>

\* lines 159-164: constrained rates and means
EtestCmle ==
    /\ pc = "cmle"
    /\ IF RIsZero(RAdd(RInt(1), loc.r_d))
       THEN /\ RaiseIn("ZeroDivisionError")
            /\ UNCHANGED <<loc, trace>>
       ELSE LET mm == CmleMeans(call, loc.r_d)
            IN  /\ loc' = [loc EXCEPT !.mean1 = mm[1], !.mean2 = mm[2]]
                /\ trace' = Append(trace, "cmle")
                /\ pc' = After("cmle")
                /\ outcome' = outcome
    /\ UNCHANGED <<call, ret, statEps, cmpEps>>

\* line 166: stat_sample = stat_func(y1, y2)
EtestStatSample ==
    /\ pc = "stat_sample"
    /\ loc' = [loc EXCEPT !.stat_sample =
                 StatFunc(loc.stat_func, call.count1, call.count2,
                          loc.r_d, loc.eps)]
    /\ statEps' = statEps \cup {loc.eps}
    /\ trace' = Append(trace, "stat_sample")
    /\ pc' = After("stat_sample")
    /\ UNCHANGED <<call, ret, outcome, cmpEps>>

\* lines 173-176: the default truncation grid, only when ygrid is None
EtestGrid ==
    /\ pc = "grid"
    /\ IF call.ygrid = "None"
       THEN \E isf \in PoissonIsf(RMax(loc.mean1, loc.mean2)) :
              \* max(nan, 100) is nan, and np.arange(nan) raises
              IF isf.kind # "num"
              THEN /\ RaiseIn("ValueError:arange")
                   /\ UNCHANGED <<loc, trace>>
              ELSE /\ loc' = [loc EXCEPT !.y_grid =
                          [bound |-> TRUE, last |-> Max(isf.fx, MinThreshold)]]
                   /\ trace' = Append(trace, "grid")
                   /\ pc' = After("grid")
                   /\ outcome' = outcome
       ELSE /\ pc' = After("grid")
            /\ UNCHANGED <<loc, trace, outcome>>
    /\ UNCHANGED <<call, ret, statEps, cmpEps>>

\* lines 177-178: the two PMF vectors over y_grid
EtestPdf ==
    /\ pc = "pdf"
    /\ IF ~loc.y_grid.bound
       THEN /\ RaiseIn("UnboundLocalError")
            /\ UNCHANGED <<loc, trace>>
       ELSE /\ loc' = [loc EXCEPT
                         !.pdf1 = PoissonPmf(loc.y_grid.last, loc.mean1),
                         !.pdf2 = PoissonPmf(loc.y_grid.last, loc.mean2)]
            /\ trace' = Append(trace, "pdf")
            /\ pc' = After("pdf")
            /\ outcome' = outcome
    /\ UNCHANGED <<call, ret, statEps, cmpEps>>

\* line 180: the statistic surface (kept on the cells that carry mass)
EtestStatSpace ==
    /\ pc = "stat_space"
    /\ loc' = [loc EXCEPT !.stat_space =
                 [c \in Cells(loc.pdf1, loc.pdf2) |->
                    StatFunc(loc.stat_func, c[1], c[2], loc.r_d, loc.eps)]]
    /\ statEps' = statEps \cup {loc.eps}
    /\ trace' = Append(trace, "stat_space")
    /\ pc' = After("stat_space")
    /\ UNCHANGED <<call, ret, outcome, cmpEps>>

\* line 181: eps = 1e-15
EtestEps ==
    /\ pc = "eps"
    /\ loc' = [loc EXCEPT !.eps = EpsCompare]
    /\ pc' = After("eps")
    /\ UNCHANGED <<call, ret, outcome, trace, statEps, cmpEps>>

\* lines 183-190: the extremal region, or raise for an unknown alternative
EtestMask ==
    /\ pc = "mask"
    /\ IF call.alternative \notin EtestAlternatives
       THEN /\ RaiseIn("ValueError:alternative")
            /\ UNCHANGED <<loc, trace, cmpEps>>
       ELSE /\ loc' = [loc EXCEPT !.mask =
                        {c \in DOMAIN loc.stat_space :
                           InRegion(call.alternative, loc.stat_space[c],
                                    loc.stat_sample, loc.eps)}]
            /\ cmpEps' = cmpEps \cup {loc.eps}
            /\ trace' = Append(trace, "mask")
            /\ pc' = After("mask")
            /\ outcome' = outcome
    /\ UNCHANGED <<call, ret, statEps>>

\* lines 192-193: the masked sum, and return
EtestPvalue ==
    /\ pc = "pvalue"
    /\ ret' = [NoRet EXCEPT
                 !.statistic = loc.stat_sample,
                 !.pvalue = Prob(Rat(MassOver(loc.pdf1, loc.pdf2, loc.mask),
                                     PSCALE * PSCALE))]
    /\ outcome' = "returned"
    /\ trace' = Append(trace, "pvalue")
    /\ pc' = After("pvalue")
    /\ UNCHANGED <<call, loc, statEps, cmpEps>>

Next ==
    \/ CallTest
    \/ CallTost
    \/ CallEtest
    \/ EtestDispatch
    \/ EtestCmle
    \/ EtestStatSample
    \/ EtestGrid
    \/ EtestPdf
    \/ EtestStatSpace
    \/ EtestEps
    \/ EtestMask
    \/ EtestPvalue

Spec == Init /\ [][Next]_vars

(* ============================ properties ============================== *)
Done == pc = "done"
IsTest == call.fn = "test_poisson_2indep"
IsEtest == call.fn = "etest_poisson_2indep"
IsTost == call.fn = "tost_poisson_2indep"
\* InvalidArgument is Python's ValueError
InvalidArgument == {"ValueError:method", "ValueError:alternative",
                    "ValueError:arange", "ValueError:exposure",
                    "ValueError:bounds"}
PositiveExposures == call.exposure1 > 0 /\ call.exposure2 > 0
RLess(p, q) == ~RLeq(q, p)
IsProbability(p) ==
    p.kind = "num" /\ RLeq(RInt(0), p.p) /\ RLeq(p.p, RInt(1))

\* C1: whenever test_poisson_2indep accepts both one-sided calls,
\* tost_poisson_2indep returns (p, t1, t2) with t1 the test at ratio_null=low,
\* alternative='larger', t2 the test at ratio_null=upp,
\* alternative='smaller', and p the larger of the two p-values; otherwise
\* it returns nothing.
C1_TostIsMaxOfOneSidedTests ==
    (IsTost /\ Done) =>
      LET t1 == TestPoisson2indep([call EXCEPT !.ratio_null = call.low,
                                               !.alternative = "larger"])
          t2 == TestPoisson2indep([call EXCEPT !.ratio_null = call.upp,
                                               !.alternative = "smaller"])
      IN  IF t1.exc = "none" /\ t2.exc = "none"
          THEN /\ outcome = "returned"
               /\ ret.t1 = t1.res
               /\ ret.t2 = t2.res
               /\ ret.pvalue \in {t1.res.pvalue, t2.res.pvalue}
               /\ RLeq(t1.res.pvalue.p, ret.pvalue.p)
               /\ RLeq(t2.res.pvalue.p, ret.pvalue.p)
          ELSE outcome # "returned"

C1_Witness ==
    /\ IsTost /\ outcome = "returned"
    /\ RLess(ret.t2.pvalue.p, ret.t1.pvalue.p)
    /\ ret.pvalue = ret.t1.pvalue
    /\ call.method = "sqrt"

\* C2: with positive exposures, an unsupported method makes
\* test_poisson_2indep (and tost_poisson_2indep through it) and
\* etest_poisson_2indep fail with ValueError('method not recognized'),
\* whatever the alternative, and nothing is returned.
C2_UnknownMethodRaises ==
    (Done /\ PositiveExposures) =>
      /\ ((IsTest \/ IsTost)
           /\ call.method \notin
                {"score", "wald", "sqrt", "exact-cond", "cond-midp"})
         => (outcome = "ValueError:method" /\ ret = NoRet)
      /\ (IsEtest /\ call.method \notin {"score", "wald"})
         => (outcome = "ValueError:method" /\ ret = NoRet)

C2_Witness ==
    /\ IsEtest /\ Done /\ PositiveExposures
    /\ call.method = "sqrt" /\ call.alternative = "bogus"
    /\ outcome = "ValueError:method"

C4_NonPositiveExposureRaises ==
    (Done /\ (call.exposure1 <= 0 \/ call.exposure2 <= 0) /\ call.count2 > 0)
      => outcome \in InvalidArgument

\* C4 as amended: no function checks the exposures.  With exposure1 == 0 or
\* exposure2 == 0 each fails with ZeroDivisionError, for every method and
\* alternative; with both exposures negative, a supported method and
\* alternative, count2 > 0 and the default grid, each returns a result.
C4_ExposuresUnchecked ==
    Done =>
      /\ (call.exposure1 = 0 \/ call.exposure2 = 0)
         => outcome = "ZeroDivisionError"
      /\ (/\ call.exposure1 < 0 /\ call.exposure2 < 0
          /\ call.count2 > 0
          /\ \/ IsTost
             \/ IsTest /\ call.alternative \in {"two-sided", "larger", "smaller"}
             \/ IsEtest /\ call.alternative \in EtestAlternatives
                        /\ call.ygrid = "None"
          /\ call.method \in
               (IF IsEtest THEN {"score", "wald"}
                ELSE {"score", "wald", "sqrt", "exact-cond", "cond-midp"}))
         => outcome = "returned"

C4_Witness ==
    /\ IsTost /\ Done
    /\ call.exposure1 > 0 /\ call.exposure2 = 0
    /\ outcome = "ZeroDivisionError"

\* C5 as claimed: with an explicit grid, a supported method and alternative
\* and positive exposures, etest_poisson_2indep returns (statistic, pvalue).
C5_ExplicitGridReturns ==
    (/\ IsEtest /\ Done /\ call.ygrid # "None" /\ PositiveExposures
     /\ call.method \in {"score", "wald"}
     /\ call.alternative \in EtestAlternatives)
      => (outcome = "returned" /\ IsProbability(ret.pvalue))

\* C6 as claimed: for count1 == count2 == 0 with positive exposures,
\* test_poisson_2indep (every supported method and alternative) and
\* etest_poisson_2indep (score and wald) return a p-value in [0, 1].
C6_ZeroCountsReturn ==
    (/\ Done /\ call.count1 = 0 /\ call.count2 = 0 /\ PositiveExposures
     /\ \/ /\ IsTest
           /\ call.method \in
                {"score", "wald", "sqrt", "exact-cond", "cond-midp"}
           /\ call.alternative \in {"two-sided", "larger", "smaller"}
        \/ /\ IsEtest /\ call.ygrid = "None"
           /\ call.method \in {"score", "wald"}
           /\ call.alternative \in EtestAlternatives)
      => /\ outcome = "returned"
         /\ IsProbability(IF IsTest THEN ret.res.pvalue ELSE ret.pvalue)

\* C7: the record test_poisson_2indep returns has
\* rates = (count1/exposure1, count2/exposure2), ratio = rates[0]/rates[1]
\* and echoes method, alternative and ratio_null, whichever branch ran.
C7_RatesAndRatio ==
    (IsTest /\ outcome = "returned" /\ PositiveExposures) =>
      LET r == ret.res
      IN  /\ r.rates[1][1] * call.exposure1 = call.count1 * r.rates[1][2]
          /\ r.rates[2][1] * call.exposure2 = call.count2 * r.rates[2][2]
          /\ r.ratio[1] * (call.count2 * call.exposure1)
               = r.ratio[2] * (call.count1 * call.exposure2)
          /\ r.method = call.method
          /\ r.alternative = call.alternative
          /\ r.ratio_null = call.ratio_null

C7_Witness ==
    /\ IsTest /\ outcome = "returned"
    /\ call.method = "cond-midp" /\ call.alternative = "smaller"
    /\ call.exposure1 = 1 /\ call.exposure2 = 2
    /\ call.count1 = 1 /\ call.count2 = 2

\* C8: for the same inputs the 'cond-midp' p-value is the 'exact-cond'
\* p-value minus half the binomial point mass at count1, hence no larger
\* and equal only if that mass is zero; both results have
\* distribution='binomial' and statistic None.
C8_MidPIsExactMinusHalfMass ==
    (IsTest /\ outcome = "returned"
       /\ call.method \in {"exact-cond", "cond-midp"}) =>
      LET exact == TestPoisson2indep([call EXCEPT !.method = "exact-cond"])
          midp == TestPoisson2indep([call EXCEPT !.method = "cond-midp"])
          r_d == <<call.ratio_null[1] * call.exposure1,
                   call.ratio_null[2] * call.exposure2>>
          mass == BinomPmf(call.count1, call.count1 + call.count2,
                           Rat(r_d[1], r_d[1] + r_d[2]))
      IN  /\ exact.exc = "none" /\ midp.exc = "none"
          /\ ret.res = (IF call.method = "cond-midp" THEN midp ELSE exact).res
          /\ RAdd(RAdd(midp.res.pvalue.p, midp.res.pvalue.p), mass)
               = RAdd(exact.res.pvalue.p, exact.res.pvalue.p)
          /\ RLeq(midp.res.pvalue.p, exact.res.pvalue.p)
          /\ (midp.res.pvalue.p = exact.res.pvalue.p) => RIsZero(mass)
          /\ ret.res.distribution = "binomial"
          /\ ret.res.statistic = None

C8_Witness ==
    /\ IsTest /\ outcome = "returned"
    /\ call.method = "cond-midp" /\ call.alternative = "two-sided"
    /\ call.count1 = 2 /\ call.count2 = 1

\* C9 as claimed: when etest_poisson_2indep, with a supported method and
\* valid numeric inputs, fails with InvalidArgument (an unrecognized
\* alternative), nothing of the enumeration has been computed.
C9_InvalidAlternativeBeforeComputation ==
    (IsEtest /\ PositiveExposures /\ call.count2 > 0
       /\ call.method \in {"score", "wald"}
       /\ outcome \in InvalidArgument)
      => trace = <<>>

\* C9 as amended: only the failure for an unrecognized method comes before
\* any computation.  The failure for an unrecognized alternative comes
\* after the constrained rates, the observed statistic, the grid, the PMF
\* vectors and the statistic surface have been computed; the masked sum is
\* not computed and nothing is returned.
C9_InvalidAlternativeAfterSurface ==
    IsEtest =>
      /\ outcome = "ValueError:method" => trace = <<>>
      /\ outcome = "ValueError:alternative" =>
           /\ trace = <<"cmle", "stat_sample", "grid", "pdf", "stat_space">>
           /\ ret = NoRet

C9_Witness ==
    /\ IsEtest /\ outcome = "ValueError:alternative"
    /\ call.method = "wald" /\ call.alternative = "bogus"

\* C10: every evaluation of stat_func, for stat_sample and for stat_space,
\* reads eps = 1e-20; eps = 1e-15 is read only by the comparisons that
\* select the extremal region.
C10_EpsUse ==
    IsEtest =>
      /\ statEps \subseteq {20}
      /\ cmpEps \subseteq {15}
      /\ (\E i \in 1..Len(trace) : trace[i] = "stat_sample") => statEps = {20}
      /\ (\E i \in 1..Len(trace) : trace[i] = "stat_space") =>
           (statEps = {20} /\ (pc \in {"mask", "pvalue", "done"} => loc.eps = 15))
      /\ (\E i \in 1..Len(trace) : trace[i] = "mask") => cmpEps = {15}

C10_Witness ==
    /\ IsEtest /\ outcome = "returned"
    /\ statEps = {20} /\ cmpEps = {15} /\ loc.eps = 15
    /\ call.count1 = 1 /\ call.count2 = 2 /\ call.method = "wald"

====
